---------------------------- MODULE Spec2Model ----------------------------
(***************************************************************************)
(* A model of src/app.py (GreenAnalytics): the scoring function            *)
(* calculate_scores, the SQLite adapter (users, history) and the script    *)
(* runs of the Streamlit page (login, registration, dashboard).            *)
(*                                                                         *)
(* Numbers.  The code computes in floats; the model computes the same      *)
(* expressions exactly, in integers counting Unit-ths of a score point.   *)
(* Every division of the code (/1000, /500, *1.5, /4, /3, /2, /3) is exact *)
(* in that unit for integer inputs (x/1000 is written x * (Unit/1000) to   *)
(* stay within 32-bit integers).                                           *)
(*                                                                         *)
(* Line 307 of src/app.py holds a stray quote character; the model reads   *)
(* the script without it.  create_pdf (lines 208-231) only formats its     *)
(* arguments and is not modelled.                                          *)
(***************************************************************************)
EXTENDS Integers, Sequences, FiniteSets, TLC

VARIABLES
    users,                  \* table users: username -> [name, password_hash]
    history,                \* table history: the rows, in rowid order
    authentication_status,  \* st.session_state['authentication_status']
    username,               \* st.session_state['username']
    inputs,                 \* the script run's inputs dict
    calc_triggered,         \* the script run's calc_triggered
    scores,                 \* what calculate_scores returned in the run
    run,                    \* what the last script run did and showed
    saves,                  \* per user, the number of save_data calls made
    sim                     \* the Scenario Simulator as the run rendered it

vars == <<users, history, authentication_status, username, inputs,
          calc_triggered, scores, run, saves, sim>>

----------------------------------------------------------------------------
(* Python values held in the inputs dict and in DataFrame cells.           *)

Num(n) == [t |-> "num", n |-> n, s |-> ""]
Str(s) == [t |-> "str", n |-> 0, s |-> s]

MetricKeys == {"energy", "water", "recycling", "renewable", "turnover",
               "incidents", "diversity", "board", "ethics"}

Max2(a, b) == IF a >= b THEN a ELSE b
Min2(a, b) == IF a <= b THEN a ELSE b

\* One score point, in model units: 4000 makes e_raw exact, 3 s_raw and
\* (with 2 | 4000) g_raw, and the last 3 the final mean.
Unit == 4000 * 3 * 3

----------------------------------------------------------------------------
(* calculate_scores, src/app.py:234-257.                                   *)

\* float(x): a number converts, a non-numeric string raises ValueError.
FloatOk(v) == v.t = "num"

\* inputs.get(key, default)
Get(d, key, default) == IF key \in DOMAIN d THEN d[key] ELSE Num(default)

EnergyTermAbs(energy) ==
    LET x == 100 * Unit - energy * (Unit \div 1000) IN IF x >= 0 THEN x ELSE -x

\* max(0, 100 - energy/1000)
EnergyTerm(energy) == Max2(0, 100 * Unit - energy * (Unit \div 1000))

\* max(0, 100 - water/500)
WaterTerm(water) == Max2(0, 100 * Unit - water * (Unit \div 500))

RenewableTermDouble(renewable) == renewable * 2 * Unit

\* renewable * 1.5
RenewableTerm(renewable) == (renewable * 3 * Unit) \div 2

\* max(0, 100 - turnover*2)
TurnoverTerm(turnover) == Max2(0, 100 * Unit - turnover * 2 * Unit)

\* max(0, 100 - incidents*10)
IncidentsTerm(incidents) == Max2(0, 100 * Unit - incidents * 10 * Unit)

ClampNoCeiling(raw) == Max2(0, raw)

\* min(100, max(0, raw))
Clamp(raw) == Min2(100 * Unit, Max2(0, raw))

E_score(energy, water, recycling, renewable) ==
    Clamp((EnergyTerm(energy) + WaterTerm(water) + recycling * Unit
           + RenewableTerm(renewable)) \div 4)

S_score(turnover, incidents, diversity) ==
    Clamp((TurnoverTerm(turnover) + IncidentsTerm(incidents)
           + diversity * Unit) \div 3)

G_score(board, ethics) == Clamp((board * Unit + ethics * Unit) \div 2)

FinalManufacturing(e, s, g) == (5 * e + 3 * s + 2 * g) \div 10

\* final = (e_score + s_score + g_score) / 3
Final(e, s, g) == (e + s + g) \div 3

NoScores == [exc |-> "none", final |-> 0, e |-> 0, s |-> 0, g |-> 0]

calculate_scores(d) ==
    LET energy    == Get(d, "energy", 50000)
        water     == Get(d, "water", 2000)
        recycling == Get(d, "recycling", 40)
        renewable == Get(d, "renewable", 0)
        turnover  == Get(d, "turnover", 15)
        incidents == Get(d, "incidents", 0)
        diversity == Get(d, "diversity", 30)
        board     == Get(d, "board", 60)
        ethics    == Get(d, "ethics", 95)
        all       == {energy, water, recycling, renewable, turnover,
                      incidents, diversity, board, ethics}
    IN  IF \E v \in all : ~FloatOk(v)
        THEN [NoScores EXCEPT !.exc = "ValueError"]
        ELSE LET e == E_score(energy.n, water.n, recycling.n, renewable.n)
                 s == S_score(turnover.n, incidents.n, diversity.n)
                 g == G_score(board.n, ethics.n)
             IN  [exc |-> "none", final |-> Final(e, s, g),
                  e |-> e, s |-> s, g |-> g]


----------------------------------------------------------------------------
(* The inputs the scoring function is checked on.                          *)

FieldValues(k) ==
    CASE k = "energy"    -> {0, 50000, 100000, 200000}
      [] k = "water"     -> {0, 2000, 60000}
      [] k = "recycling" -> {0, 40, 100}
      [] k = "renewable" -> {0, 20, 100}
      [] k = "turnover"  -> {0, 15, 60}
      [] k = "incidents" -> {0, 3, 12}
      [] k = "diversity" -> {0, 30, 100}
      [] k = "board"     -> {0, 60, 100}
      [] k = "ethics"    -> {0, 95, 100}

\* A value of each field that differs from the default calculate_scores
\* gives the field.
SampleValue(k) ==
    CASE k = "energy"    -> 100000
      [] k = "water"     -> 60000
      [] k = "recycling" -> 100
      [] k = "renewable" -> 20
      [] k = "turnover"  -> 60
      [] k = "incidents" -> 3
      [] k = "diversity" -> 100
      [] k = "board"     -> 100
      [] k = "ethics"    -> 100

Industries == {"General", "Manufacturing"}

EmptyDict == [k \in {} |-> Num(0)]

\* A complete numeric record with an industry entry (which calculate_scores
\* never reads).
NumericInput(en, wa, rc, rn, tu, ic, dv, bo, et, ind) ==
    [energy |-> Num(en), water |-> Num(wa), recycling |-> Num(rc),
     renewable |-> Num(rn), turnover |-> Num(tu), incidents |-> Num(ic),
     diversity |-> Num(dv), board |-> Num(bo), ethics |-> Num(et),
     industry |-> Str(ind)]

\* A mapping in which each metric key is absent, a number or a non-numeric
\* string.
KindInput(kinds) ==
    [k \in {x \in MetricKeys : kinds[x] # "absent"} |->
        IF kinds[k] = "num" THEN Num(SampleValue(k)) ELSE Str("abc")]

\* What a script run did: the widget that caused it, the message it showed,
\* the exception that ended it, and for a registration the username and
\* what register_user returned.
NoRun == [kind |-> "none", msg |-> "none", exc |-> "none", ret |-> "none",
          user |-> "none"]

----------------------------------------------------------------------------
(* The Scenario Simulator, src/app.py:529-565.                             *)

sliderClamped(min_value, max_value, value) ==
    [min |-> min_value, max |-> max_value,
     value |-> Min2(max_value, Max2(min_value, value))]

\* st.slider(label, min_value, max_value, value) on the run that creates
\* the widget: it opens at value, its bounds widened to hold it.  (A run
\* caused by moving it renders no simulator, see IdleRun, and a widget not
\* rendered loses its state.)
slider(min_value, max_value, value) ==
    [min |-> Min2(min_value, value), max |-> Max2(max_value, value),
     value |-> value]

SimulatedScoreStale(d, g, sim_energy, sim_turnover, sim_recycling) ==
    LET s_e_score == Clamp((EnergyTerm(sim_energy) + WaterTerm(d["water"].n)
                            + d["recycling"].n * Unit
                            + RenewableTerm(d["renewable"].n)) \div 4)
        s_s_score == Clamp((TurnoverTerm(sim_turnover)
                            + IncidentsTerm(d["incidents"].n)
                            + d["diversity"].n * Unit) \div 3)
    IN  (s_e_score + s_s_score + g) \div 3

\* Lines 543-547: s_e_raw, s_e_score, s_s_raw, s_s_score and s_final, from
\* the three controls, the dict's other fields and the run's g.
SimulatedScore(d, g, sim_energy, sim_turnover, sim_recycling) ==
    LET s_e_score == Clamp((EnergyTerm(sim_energy) + WaterTerm(d["water"].n)
                            + sim_recycling * Unit
                            + RenewableTerm(d["renewable"].n)) \div 4)
        s_s_score == Clamp((TurnoverTerm(sim_turnover)
                            + IncidentsTerm(d["incidents"].n)
                            + d["diversity"].n * Unit) \div 3)
    IN  (s_e_score + s_s_score + g) \div 3

NoSim == [shown |-> FALSE, energy |-> 0, turnover |-> 0, recycling |-> 0,
          s_final |-> 0, delta |-> 0]

\* What tab5 shows for the three control values: the simulated score and
\* its difference from the current one (lines 553-554).
Simulator(d, r, sim_energy, sim_turnover, sim_recycling) ==
    LET s_final == SimulatedScore(d, r.g, sim_energy, sim_turnover,
                                  sim_recycling)
    IN  [shown |-> TRUE, energy |-> sim_energy, turnover |-> sim_turnover,
         recycling |-> sim_recycling, s_final |-> s_final,
         delta |-> s_final - r.final]

\* tab5 of a run that submitted d: the controls as lines 537-539 create
\* them, then the simulator.
Tab5(d, r) ==
    Simulator(d, r,
              slider(0, 100000, d["energy"].n).value,
              slider(0, 50, d["turnover"].n).value,
              slider(0, 100, d["recycling"].n).value)

----------------------------------------------------------------------------
(* The scoring function on its own: every input of the sets above, then    *)
(* one call of calculate_scores.                                           *)

ScoreInit ==
    /\ users = [u \in {} |-> 0]
    /\ history = <<>>
    /\ authentication_status = "None"
    /\ username = "none"
    /\ calc_triggered = FALSE
    /\ scores = NoScores
    /\ run = NoRun
    /\ saves = [u \in {} |-> 0]
    /\ sim = NoSim
    /\ \/ \E en \in FieldValues("energy"), wa \in FieldValues("water"),
             rc \in FieldValues("recycling"), rn \in FieldValues("renewable"),
             tu \in FieldValues("turnover"), ic \in FieldValues("incidents"),
             dv \in FieldValues("diversity"), bo \in FieldValues("board"),
             et \in FieldValues("ethics"), ind \in Industries :
             inputs = NumericInput(en, wa, rc, rn, tu, ic, dv, bo, et, ind)
       \/ \E kinds \in [MetricKeys -> {"absent", "num", "str"}] :
             inputs = KindInput(kinds)

Calculate ==
    /\ run.kind = "none"
    /\ scores' = calculate_scores(inputs)
    /\ run' = [run EXCEPT !.kind = "calculate", !.exc = scores'.exc]
    /\ UNCHANGED <<users, history, authentication_status, username, inputs,
                   calc_triggered, saves, sim>>

ScoreNext == Calculate

ScoreSpec == ScoreInit /\ [][ScoreNext]_vars

----------------------------------------------------------------------------
(* The simulator on its own: every complete numeric record, one call of    *)
(* calculate_scores, then tab5's computation for any setting of the three  *)
(* controls.                                                               *)

\* Settings of the three controls, within the sliders' ranges.
ControlValues(k) ==
    CASE k = "energy"    -> {0, 50000, 100000}
      [] k = "turnover"  -> {0, 15, 50}
      [] k = "recycling" -> {0, 40, 100}

SimInit ==
    /\ users = [u \in {} |-> 0]
    /\ history = <<>>
    /\ authentication_status = "None"
    /\ username = "none"
    /\ calc_triggered = FALSE
    /\ scores = NoScores
    /\ run = NoRun
    /\ saves = [u \in {} |-> 0]
    /\ sim = NoSim
    /\ \E en \in FieldValues("energy"), wa \in FieldValues("water"),
          rc \in FieldValues("recycling"), rn \in FieldValues("renewable"),
          tu \in FieldValues("turnover"), ic \in FieldValues("incidents"),
          dv \in FieldValues("diversity"), bo \in FieldValues("board"),
          et \in FieldValues("ethics") :
          inputs = [k \in MetricKeys |->
                      NumericInput(en, wa, rc, rn, tu, ic, dv, bo, et, "")[k]]

Simulate(sim_energy, sim_turnover, sim_recycling) ==
    /\ run.kind = "calculate"
    /\ scores.exc = "none"
    /\ sim' = Simulator(inputs, scores, sim_energy, sim_turnover,
                        sim_recycling)
    /\ run' = [run EXCEPT !.kind = "simulate"]
    /\ UNCHANGED <<users, history, authentication_status, username, inputs,
                   calc_triggered, scores, saves>>

\* tab5 as the submitting run renders it (lines 537-554): the controls
\* newly created from the submitted values.
OpenSimulator ==
    /\ run.kind = "calculate"
    /\ scores.exc = "none"
    /\ sim' = Tab5(inputs, scores)
    /\ run' = [run EXCEPT !.kind = "open"]
    /\ UNCHANGED <<users, history, authentication_status, username, inputs,
                   calc_triggered, scores, saves>>

SimNext ==
    \/ Calculate
    \/ OpenSimulator
    \/ \E e \in ControlValues("energy"), t \in ControlValues("turnover"),
          r \in ControlValues("recycling") : Simulate(e, t, r)

SimSpec == SimInit /\ [][SimNext]_vars

----------------------------------------------------------------------------
(* The SQLite adapter, src/app.py:120-171.                                 *)

Usernames == {"ann", "bob"}
FullNames == {"Ann Lee", "Bo Diaz"}
Passwords == {"abc", "secret"}
Salts     == {1}

\* datetime.datetime.now(): the wall clock, read at each save_data.  It is
\* local time and may repeat or step back.  The part of the reading above
\* the seconds is the same for all readings.
Times == {[sec |-> 9, usec |-> 0], [sec |-> 9, usec |-> 500000],
          [sec |-> 10, usec |-> 0]}

\* Bound on the number of rows of the history table.
MaxHistory == 2

\* init_db: both tables empty.
EmptyUsers == [u \in {} |-> [name |-> "", password_hash |-> <<"", 0>>]]

\* bcrypt.hashpw(password, salt): the hash carries its salt and decides
\* the password.
hashpw(password, salt) == <<password, salt>>

\* bcrypt.checkpw, as the authenticator calls it.
checkpw(password, hash) == hashpw(password, hash[2]) = hash

register_user_replace(table, user, name, password, salt) ==
    [ret |-> TRUE,
     users |-> [u \in DOMAIN table \cup {user} |->
                   IF u = user
                   THEN [name |-> name,
                         password_hash |-> hashpw(password, salt)]
                   ELSE table[u]]]

\* register_user: INSERT into users; the PRIMARY KEY on username makes the
\* INSERT of an existing username raise IntegrityError, answered by False.
register_user(table, user, name, password, salt) ==
    IF user \in DOMAIN table
    THEN [ret |-> FALSE, users |-> table]
    ELSE [ret |-> TRUE,
          users |-> [u \in DOMAIN table \cup {user} |->
                        IF u = user
                        THEN [name |-> name,
                              password_hash |-> hashpw(password, salt)]
                        ELSE table[u]]]

\* get_credentials: the users table as the authenticator's mapping.
get_credentials(table) ==
    [u \in DOMAIN table |->
        [name |-> table[u].name, password |-> table[u].password_hash]]

Digit(d) == 48 + d

\* n as `width` decimal digits, zero padded (character codes).
RECURSIVE Padded(_, _)
Padded(n, width) ==
    IF width = 0 THEN <<>>
    ELSE Append(Padded(n \div 10, width - 1), Digit(n % 10))

\* datetime.isoformat(), from the seconds on: "SS", and ".ffffff" only when
\* the microsecond is not 0.
isoformat(t) ==
    Padded(t.sec, 2) \o (IF t.usec = 0 THEN <<>>
                         ELSE <<46>> \o Padded(t.usec, 6))

\* SQLite's comparison of TEXT (BINARY collation): bytewise, a proper prefix
\* first.
RECURSIVE TextLess(_, _)
TextLess(a, b) ==
    IF b = <<>> THEN FALSE
    ELSE IF a = <<>> THEN TRUE
    ELSE IF Head(a) # Head(b) THEN Head(a) < Head(b)
    ELSE TextLess(Tail(a), Tail(b))

\* A new row's id (INTEGER PRIMARY KEY): one more than the largest.
NextId(table) ==
    IF table = <<>> THEN 1
    ELSE 1 + CHOOSE m \in {table[i].id : i \in 1..Len(table)} :
                 \A i \in 1..Len(table) : table[i].id <= m

\* save_data: one INSERT into history, stamped with the clock reading.
save_data(table, user, overall, e, s, g, details, now) ==
    Append(table, [id |-> NextId(table), username |-> user,
                   timestamp |-> isoformat(now), overall |-> overall,
                   e_score |-> e, s_score |-> s, g_score |-> g,
                   details |-> details])

\* ORDER BY timestamp ASC; rows of equal timestamp stay in rowid order.
RECURSIVE InsertByTimestamp(_, _)
InsertByTimestamp(r, sorted) ==
    IF sorted = <<>> THEN <<r>>
    ELSE IF TextLess(r.timestamp, Head(sorted).timestamp)
         THEN <<r>> \o sorted
         ELSE <<Head(sorted)>> \o InsertByTimestamp(r, Tail(sorted))

RECURSIVE OrderByTimestamp(_)
OrderByTimestamp(rows) ==
    IF rows = <<>> THEN <<>>
    ELSE InsertByTimestamp(rows[Len(rows)],
                           OrderByTimestamp(SubSeq(rows, 1, Len(rows) - 1)))

\* WHERE username = ?
WhereUsername(table, user) ==
    SelectSeq(table, LAMBDA r : r.username = user)

\* SELECT timestamp, overall, e_score, s_score, g_score, as the DataFrame's
\* columns.
Columns(rows) ==
    [i \in 1..Len(rows) |->
        [Date |-> rows[i].timestamp, Overall |-> rows[i].overall,
         Environmental |-> rows[i].e_score, Social |-> rows[i].s_score,
         Governance |-> rows[i].g_score]]

\* pd.to_datetime of a stored timestamp (line 516): the clock reading the
\* text denotes.
RECURSIVE Decimal(_)
Decimal(digits) ==
    IF digits = <<>> THEN 0
    ELSE 10 * Decimal(SubSeq(digits, 1, Len(digits) - 1))
         + (digits[Len(digits)] - 48)

to_datetime(text) ==
    [sec  |-> Decimal(SubSeq(text, 1, 2)),
     usec |-> IF Len(text) = 2 THEN 0 ELSE Decimal(SubSeq(text, 4, 9))]

get_history_unordered(table, user) == Columns(WhereUsername(table, user))

get_history_of_all(table, user) == Columns(OrderByTimestamp(table))

get_history(table, user) ==
    Columns(OrderByTimestamp(WhereUsername(table, user)))

----------------------------------------------------------------------------
(* The script, src/app.py:259-566.  Streamlit runs it top to bottom once   *)
(* per interaction; each action below is one such run, named after the     *)
(* widget that caused it.                                                  *)

\* What the manual form submits (lines 319-334): the form's defaults, and a
\* record at the far end of the widgets' ranges.
FormDefaults ==
    [energy |-> Num(50000), water |-> Num(2000), recycling |-> Num(40),
     renewable |-> Num(20), turnover |-> Num(15), incidents |-> Num(0),
     diversity |-> Num(30), board |-> Num(60), ethics |-> Num(95)]

ManualInputs ==
    { FormDefaults,
      [energy |-> Num(200000), water |-> Num(50000), recycling |-> Num(100),
       renewable |-> Num(100), turnover |-> Num(100), incidents |-> Num(100),
       diversity |-> Num(100), board |-> Num(100), ethics |-> Num(100)] }

\* Uploaded files, as what pd.read_csv makes of them: unreadable, or a
\* frame of columns and rows.  The wide file holds the form's defaults.
WideFile ==
    [readable |-> TRUE, columns |-> MetricKeys, rows |-> << FormDefaults >>]
LongPartialFile ==
    [readable |-> TRUE, columns |-> {"metric", "value"},
     rows |-> << [metric |-> Str("energy"), value |-> Num(100000)],
                 [metric |-> Str("water"), value |-> Num(2000)],
                 [metric |-> Str("energy"), value |-> Num(0)] >>]
LongTextFile ==
    [readable |-> TRUE, columns |-> {"metric", "value"},
     rows |-> << [metric |-> Str("energy"), value |-> Str("abc")] >>]
NoValueFile ==
    [readable |-> TRUE, columns |-> {"metric", "amount"},
     rows |-> << [metric |-> Str("energy"), amount |-> Num(0)] >>]
HeaderOnlyFile ==
    [readable |-> TRUE, columns |-> MetricKeys, rows |-> <<>>]
UnreadableFile ==
    [readable |-> FALSE, columns |-> {}, rows |-> <<>>]

CsvFiles == {WideFile, LongPartialFile, LongTextFile, NoValueFile,
             HeaderOnlyFile, UnreadableFile}

\* Lines 341-343, inside the try: the dict, or the exception raised.
\* set_index('metric')['value'].to_dict() keeps the last row of a metric.
ParseCsv(file) ==
    IF ~file.readable THEN [exc |-> "ParserError", dict |-> EmptyDict]
    ELSE IF "metric" \in file.columns
    THEN IF "value" \notin file.columns
         THEN [exc |-> "KeyError", dict |-> EmptyDict]
         ELSE LET n == Len(file.rows)
                  last(k) == CHOOSE i \in 1..n :
                                /\ file.rows[i]["metric"].s = k
                                /\ \A j \in (i + 1)..n :
                                      file.rows[j]["metric"].s # k
              IN  [exc |-> "none",
                   dict |-> [k \in {file.rows[i]["metric"].s : i \in 1..n}
                               |-> file.rows[last(k)]["value"]]]
    ELSE IF file.rows = <<>>
         THEN [exc |-> "IndexError", dict |-> EmptyDict]
         ELSE [exc |-> "none", dict |-> file.rows[1]]

\* The tabs (lines 371-565) index the dict directly: tab1 reads eight keys,
\* tab2 renewable and diversity, tab5 energy, turnover and recycling.
RenderTabs(d) ==
    IF MetricKeys \subseteq DOMAIN d THEN "none" ELSE "KeyError"

NoSaves == [u \in Usernames |-> 0]

Init ==
    /\ users = EmptyUsers
    /\ history = <<>>
    /\ authentication_status = "None"
    /\ username = "none"
    /\ inputs = EmptyDict
    /\ calc_triggered = FALSE
    /\ scores = NoScores
    /\ run = NoRun
    /\ saves = NoSaves
    /\ sim = NoSim

\* The login form submitted (line 278): the authenticator checks the
\* password against get_credentials and sets the session; a run that logs
\* in goes on to the dashboard's landing page.
LoginRun(user, password) ==
    /\ authentication_status # "True"
    /\ LET creds == get_credentials(users)
           ok == user \in DOMAIN creds
                 /\ checkpw(password, creds[user].password)
       IN  /\ authentication_status' = IF ok THEN "True" ELSE "False"
           /\ username' = IF ok THEN user ELSE "none"
           /\ run' = [NoRun EXCEPT !.kind = "login",
                         !.msg = IF ok THEN "landing" ELSE "Access Denied"]
    /\ inputs' = EmptyDict
    /\ calc_triggered' = FALSE
    /\ scores' = NoScores
    /\ sim' = NoSim
    /\ UNCHANGED <<users, history, saves>>

\* "Create Profile" submitted (lines 282-296), shown only while the status
\* is None.
RegisterRun(name, user, password, salt) ==
    /\ authentication_status = "None"
    /\ IF Len(password) > 3
       THEN LET r == register_user(users, user, name, password, salt)
            IN  /\ users' = r.users
                /\ run' = [NoRun EXCEPT !.kind = "register", !.user = user,
                              !.ret = IF r.ret THEN "True" ELSE "False",
                              !.msg = IF r.ret THEN "Account created"
                                      ELSE "Username already exists"]
       ELSE /\ users' = users
            /\ run' = [NoRun EXCEPT !.kind = "register", !.user = user,
                                    !.msg = "Password too short"]
    /\ inputs' = EmptyDict
    /\ calc_triggered' = FALSE
    /\ scores' = NoScores
    /\ sim' = NoSim
    /\ UNCHANGED <<history, authentication_status, username, saves>>

\* "Logout" clicked (line 303).
LogoutRun ==
    /\ authentication_status = "True"
    /\ authentication_status' = "None"
    /\ username' = "none"
    /\ run' = [NoRun EXCEPT !.kind = "logout"]
    /\ inputs' = EmptyDict
    /\ calc_triggered' = FALSE
    /\ scores' = NoScores
    /\ sim' = NoSim
    /\ UNCHANGED <<users, history, saves>>

\* A new browser session without a login cookie (lines 263-264).
NewSession ==
    /\ authentication_status # "None"
    /\ authentication_status' = "None"
    /\ username' = "none"
    /\ run' = [NoRun EXCEPT !.kind = "session"]
    /\ inputs' = EmptyDict
    /\ calc_triggered' = FALSE
    /\ scores' = NoScores
    /\ sim' = NoSim
    /\ UNCHANGED <<users, history, saves>>

\* Lines 349-565 of a dashboard run that reached them with dict d and flag
\* triggered, having shown msg: the landing page, or the calculation, the
\* save and the tabs.  An exception ends the run where it is raised.
Dashboard(kind, d, triggered, msg, now) ==
    /\ inputs' = d
    /\ calc_triggered' = triggered
    /\ IF ~triggered
       THEN /\ scores' = NoScores
            /\ sim' = NoSim
            /\ run' = [NoRun EXCEPT !.kind = kind, !.msg = msg]
            /\ UNCHANGED <<history, saves>>
       ELSE LET r == calculate_scores(d)
            IN  IF r.exc # "none"
                THEN /\ scores' = NoScores
                     /\ sim' = NoSim
                     /\ run' = [NoRun EXCEPT !.kind = kind, !.msg = msg,
                                             !.exc = r.exc]
                     /\ UNCHANGED <<history, saves>>
                ELSE /\ scores' = r
                     /\ history' = save_data(history, username, r.final,
                                             r.e, r.s, r.g, d, now)
                     /\ saves' = [saves EXCEPT ![username] = @ + 1]
                     /\ run' = [NoRun EXCEPT !.kind = kind, !.msg = msg,
                                             !.exc = RenderTabs(d)]
                     /\ sim' = IF RenderTabs(d) = "none" THEN Tab5(d, r)
                               ELSE NoSim
    /\ UNCHANGED <<users, authentication_status, username>>

ManualRunNoGate(form, now) ==
    /\ Len(history) < MaxHistory
    /\ Dashboard("manual", form, TRUE, "none", now)

\* "RUN ANALYSIS" submitted on the manual form (lines 316-335), which only
\* an authenticated session is shown (line 299).
ManualRun(form, now) ==
    /\ authentication_status = "True"
    /\ Len(history) < MaxHistory
    /\ Dashboard("manual", form, TRUE, "none", now)

CsvRunTriggerFirst(file, now) ==
    /\ authentication_status = "True"
    /\ Len(history) < MaxHistory
    /\ LET p == ParseCsv(file)
       IN  IF p.exc = "none"
           THEN Dashboard("csv", p.dict, TRUE, "File processed!", now)
           ELSE Dashboard("csv", EmptyDict, TRUE, "Error parsing file", now)

\* A file uploaded and "Process File" clicked (lines 336-347).
CsvRun(file, now) ==
    /\ authentication_status = "True"
    /\ Len(history) < MaxHistory
    /\ LET p == ParseCsv(file)
       IN  IF p.exc = "none"
           THEN Dashboard("csv", p.dict, TRUE, "File processed!", now)
           ELSE Dashboard("csv", EmptyDict, FALSE, "Error parsing file", now)

\* Any other run of an authenticated session: a simulator slider moved, the
\* data source switched, a file chosen without "Process File".  No submit
\* button reports a click, so calc_triggered stays False.
IdleRun ==
    /\ authentication_status = "True"
    /\ Dashboard("idle", EmptyDict, FALSE, "landing", CHOOSE t \in Times : TRUE)

Next ==
    \/ \E u \in Usernames, p \in Passwords : LoginRun(u, p)
    \/ \E n \in FullNames, u \in Usernames, p \in Passwords, c \in Salts :
          RegisterRun(n, u, p, c)
    \/ LogoutRun
    \/ NewSession
    \/ \E f \in ManualInputs, t \in Times : ManualRun(f, t)
    \/ \E f \in CsvFiles, t \in Times : CsvRun(f, t)
    \/ IdleRun

Spec == Init /\ [][Next]_vars

----------------------------------------------------------------------------
(* Properties of calculate_scores, checked under ScoreSpec.                *)

Calculated == run.kind = "calculate"

\* The record is complete and every field is a number in its valid range:
\* energy, water, incidents >= 0 and the six percentages in 0..100.
ValidInput(d) ==
    /\ MetricKeys \subseteq DOMAIN d
    /\ \A k \in MetricKeys : d[k].t = "num" /\ d[k].n >= 0
    /\ \A k \in MetricKeys \ {"energy", "water", "incidents"} : d[k].n <= 100

InRange(x) == 0 <= x /\ x <= 100 * Unit

\* C1: for every valid input record, the four values calculate_scores
\* returns (overall, environmental, social, governance) lie in [0, 100].
C1_ScoresInRange ==
    (Calculated /\ ValidInput(inputs)) =>
        /\ scores.exc = "none"
        /\ InRange(scores.final)
        /\ InRange(scores.e)
        /\ InRange(scores.s)
        /\ InRange(scores.g)

\* A valid record whose raw environmental mean is 112.5: the ceiling acts.
C1_Witness ==
    /\ Calculated
    /\ ValidInput(inputs)
    /\ inputs["energy"].n = 0 /\ inputs["water"].n = 0
    /\ inputs["recycling"].n = 100 /\ inputs["renewable"].n = 100
    /\ scores.e = 100 * Unit

\* C2: with all other fields fixed, raising recycling or renewable never
\* lowers the environmental sub-score, raising diversity never lowers the
\* social one, raising board or ethics never lowers the governance one;
\* raising energy or water never raises the environmental sub-score and
\* raising turnover or incidents never raises the social one.
C2_Monotone ==
    (Calculated /\ ValidInput(inputs)) =>
        \A k \in MetricKeys : \A v \in FieldValues(k) :
            v > inputs[k].n =>
                LET r == calculate_scores([inputs EXCEPT ![k] = Num(v)])
                IN  /\ r.exc = "none"
                    /\ k \in {"recycling", "renewable"} => r.e >= scores.e
                    /\ k = "diversity" => r.s >= scores.s
                    /\ k \in {"board", "ethics"} => r.g >= scores.g
                    /\ k \in {"energy", "water"} => r.e <= scores.e
                    /\ k \in {"turnover", "incidents"} => r.s <= scores.s

\* A record from which more energy strictly lowers the environmental
\* sub-score and more diversity strictly raises the social one.
C2_Witness ==
    /\ Calculated
    /\ ValidInput(inputs)
    /\ inputs["energy"].n = 0
    /\ calculate_scores([inputs EXCEPT !["energy"] = Num(50000)]).e < scores.e
    /\ inputs["diversity"].n = 0
    /\ calculate_scores([inputs EXCEPT !["diversity"] = Num(30)]).s > scores.s

ForManufacturing ==
    /\ Calculated
    /\ scores.exc = "none"
    /\ "industry" \in DOMAIN inputs
    /\ inputs["industry"] = Str("Manufacturing")

\* C5 as claimed: for industry "Manufacturing" the overall score is
\* 0.5*E + 0.3*S + 0.2*G of the sub-scores returned with it.
C5_ManufacturingWeights ==
    ForManufacturing =>
        10 * scores.final = 5 * scores.e + 3 * scores.s + 2 * scores.g

\* C5 amended: calculate_scores takes no industry; for "Manufacturing", as
\* for every input, the overall score is the plain mean (E + S + G) / 3.
C5_PlainMean ==
    (Calculated /\ scores.exc = "none") =>
        3 * scores.final = scores.e + scores.s + scores.g

\* A Manufacturing record on which the plain mean and the 0.5/0.3/0.2
\* weighting differ.
C5_Witness ==
    /\ ForManufacturing
    /\ 3 * scores.final = scores.e + scores.s + scores.g
    /\ 10 * scores.final # 5 * scores.e + 3 * scores.s + 2 * scores.g

\* The field as calculate_scores reads it (lines 236-244).
Field(k, default) ==
    IF k \in DOMAIN inputs THEN inputs[k].n ELSE default

\* The environmental mean, counted in thousandths of a point times four.
EnvSumThousandths ==
    Max2(0, 100000 - Field("energy", 50000))
    + Max2(0, 100000 - 2 * Field("water", 2000))
    + 1000 * Field("recycling", 40)
    + 1500 * Field("renewable", 0)

IsExample ==
    /\ {"energy", "water", "recycling", "renewable"} \subseteq DOMAIN inputs
    /\ inputs["energy"] = Num(50000) /\ inputs["water"] = Num(2000)
    /\ inputs["recycling"] = Num(40) /\ inputs["renewable"] = Num(20)

\* C6: the environmental sub-score is the clamp to [0,100] of the mean of
\* max(0, 100 - energy/1000), max(0, 100 - water/500), recycling and
\* renewable*1.5; the energy term is 100 at energy 0 and 0 at 100000; for
\* {energy:50000, water:2000, recycling:40, renewable:20} it is 54.0.
C6_Environmental ==
    /\ EnergyTerm(0) = 100 * Unit
    /\ EnergyTerm(100000) = 0
    /\ (Calculated /\ scores.exc = "none") =>
          /\ scores.e =
                (Unit \div 4000) * Min2(400000, Max2(0, EnvSumThousandths))
          /\ IsExample => scores.e = 54 * Unit

C6_Witness == Calculated /\ scores.exc = "none" /\ IsExample

\* The mapping with every absent or non-numeric field replaced by its
\* default.
Defaulted(d) ==
    LET dflt == [energy |-> 50000, water |-> 2000, recycling |-> 40,
                 renewable |-> 0, turnover |-> 15, incidents |-> 0,
                 diversity |-> 30, board |-> 60, ethics |-> 95]
    IN  [k \in MetricKeys |->
            IF k \in DOMAIN d /\ d[k].t = "num" THEN d[k] ELSE Num(dflt[k])]

\* C9 as claimed: for every mapping whose metric keys are absent, numeric
\* or non-numeric, calculate_scores returns four scores and never raises,
\* the absent and the non-numeric fields counting as their defaults.
C9_NeverRaises ==
    Calculated =>
        /\ scores.exc = "none"
        /\ scores = calculate_scores(Defaulted(inputs))

----------------------------------------------------------------------------
(* Properties of the adapter and of the script runs, checked under Spec.   *)

\* C3: register_user returns False exactly when the username already
\* exists and True otherwise; the failed call leaves the users table as it
\* was (first name and hash kept); the successful one adds the row and
\* changes no other, whatever the display name.
C3_Register ==
    [][ (run'.kind = "register" /\ run'.ret # "none") =>
          LET u == run'.user
          IN  /\ (run'.ret = "False") <=> (u \in DOMAIN users)
              /\ (run'.ret = "True") <=> (u \notin DOMAIN users)
              /\ run'.ret = "False" => users' = users
              /\ run'.ret = "True" =>
                    /\ DOMAIN users' = DOMAIN users \cup {u}
                    /\ \A v \in DOMAIN users : users'[v] = users[v] ]_vars

\* Both usernames registered under one display name, and a further
\* registration of a taken username refused.
C3_Witness ==
    /\ DOMAIN users = Usernames
    /\ \A u, v \in Usernames : users[u].name = users[v].name
    /\ run.kind = "register"
    /\ run.ret = "False"

TimeLE(a, b) == a.sec < b.sec \/ (a.sec = b.sec /\ a.usec <= b.usec)

\* C4: after N save_data calls for a user, get_history(user) returns
\* exactly N records, in non-decreasing timestamp order.
C4_HistoryOrdered ==
    \A u \in Usernames :
        LET h == get_history(history, u)
        IN  /\ Len(h) = saves[u]
            /\ \A i \in 1..(Len(h) - 1) :
                  TimeLE(to_datetime(h[i].Date), to_datetime(h[i + 1].Date))

\* A user whose two records were saved with the later clock reading first,
\* the earlier one's text being a prefix of the later one's.
C4_Witness ==
    \E u \in Usernames :
        LET h == get_history(history, u)
            w == WhereUsername(history, u)
        IN  /\ saves[u] = 2
            /\ Len(h) = 2
            /\ w[1].timestamp = h[2].Date
            /\ w[2].timestamp = h[1].Date
            /\ Len(h[1].Date) < Len(h[2].Date)

\* The run's script reached save_data's caller with a submission: the
\* manual form was submitted or a CSV was processed.
Submitted == run.kind \in {"manual", "csv"} /\ calc_triggered

\* C7 as claimed: every run in which an analysis is submitted adds exactly
\* one history row, every other run adds none, and no run changes or
\* removes a row.
C7_OneRowPerSubmission ==
    [][ /\ Submitted' => Len(history') = Len(history) + 1
        /\ ~Submitted' => Len(history') = Len(history)
        /\ Len(history') >= Len(history)
        /\ SubSeq(history', 1, Len(history)) = history ]_vars

RowsOf(u) == {j \in 1..Len(history) : history[j].username = u}

\* C8: get_history(u) returns only rows saved with username u, and a
\* save_data call for one user leaves get_history(v) as it was for every
\* other user v.
C8_PerUser ==
    /\ [](\A u \in Usernames :
            LET h == get_history(history, u)
            IN  /\ Len(h) = Cardinality(RowsOf(u))
                /\ \A i \in 1..Len(h) : \E j \in RowsOf(u) :
                      /\ h[i].Date = history[j].timestamp
                      /\ h[i].Overall = history[j].overall)
    /\ [][ Len(history') > Len(history) =>
             \A v \in Usernames \ {username} :
                 get_history(history', v) = get_history(history, v) ]_vars

\* Both users have rows, and the last run saved one.
C8_Witness ==
    /\ \A u \in Usernames : RowsOf(u) # {}
    /\ Submitted
    /\ run.exc = "none"
    /\ history[Len(history)].username = username

\* C10: when reading or reshaping the uploaded CSV fails, the failure is
\* caught and shown as an error message, calc_triggered stays False and no
\* history row is appended.
C10_CsvFailure ==
    [][ run'.kind = "csv" =>
          \A f \in CsvFiles, t \in Times :
              (ParseCsv(f).exc # "none" /\ CsvRun(f, t)) =>
                  /\ run'.msg = "Error parsing file"
                  /\ run'.exc = "none"
                  /\ calc_triggered' = FALSE
                  /\ history' = history ]_vars

\* A run on a file that cannot be parsed, made when the table held a row.
C10_Witness ==
    /\ run.kind = "csv"
    /\ run.msg = "Error parsing file"
    /\ ~calc_triggered
    /\ history # <<>>

----------------------------------------------------------------------------
(* Properties of the Scenario Simulator, checked under SimSpec.            *)

\* The submitted record with the three simulated fields set to the
\* controls' values.
WithControls ==
    [inputs EXCEPT !["energy"] = Num(sim.energy),
                   !["turnover"] = Num(sim.turnover),
                   !["recycling"] = Num(sim.recycling)]

FormCanSubmit(d) ==
    /\ ValidInput(d)
    /\ d["energy"].n <= 200000
    /\ d["water"].n <= 50000
    /\ d["incidents"].n <= 100

\* C14: for every input the manual form can submit, the simulator opens
\* with its controls at the submitted energy, turnover and recycling, so
\* the simulated score equals the current score and the delta shown is 0.
C14_OpensAtSubmitted ==
    (run.kind = "open" /\ FormCanSubmit(inputs)) =>
        /\ sim.shown
        /\ sim.energy = inputs["energy"].n
        /\ sim.turnover = inputs["turnover"].n
        /\ sim.recycling = inputs["recycling"].n
        /\ sim.s_final = scores.final
        /\ sim.delta = 0

\* A submission beyond both narrower sliders: energy above 100000 and
\* turnover above 50.
C14_Witness ==
    /\ run.kind = "open"
    /\ FormCanSubmit(inputs)
    /\ inputs["energy"].n > 100000
    /\ inputs["turnover"].n > 50
    /\ sim.shown

----------------------------------------------------------------------------
(* Further properties of the script runs, checked under Spec.              *)

\* C12: a history row is only written by a run of an authenticated
\* session, under that session's username; a run of a session whose status
\* is None or False, a registration included, writes no row.
C12_OnlyAuthenticated ==
    [][ /\ Len(history') > Len(history) =>
              /\ authentication_status = "True"
              /\ authentication_status' = "True"
              /\ username' = username
              /\ username \in DOMAIN users
              /\ Len(history') = Len(history) + 1
              /\ history'[Len(history')].username = username
        /\ (authentication_status # "True" \/ authentication_status' # "True")
              => history' = history ]_vars

\* A user registered by a session without a login while the table held
\* rows.
C12_Witness ==
    /\ run.kind = "register"
    /\ run.ret = "True"
    /\ authentication_status = "None"
    /\ history # <<>>

\* C13 as claimed: a run that calls save_data goes on to render all five
\* tabs without raising, for every input the manual form or the CSV branch
\* accepts.
C13_SavedRunRenders ==
    [][ Len(history') > Len(history) =>
            (run'.exc = "none" /\ sim'.shown) ]_vars

=============================================================================
